---- MODULE Spec2Model ----
(***************************************************************************)
(* Model of the asset persistence layer: the kysely search query builder   *)
(* (database.ts helpers and searchAssetBuilder), the typeorm               *)
(* OptionalBetween helper and the AddAssetFilesTable migration.            *)
(*                                                                         *)
(* Conventions.  A JavaScript value that may be undefined/null and an SQL  *)
(* value that may be NULL is a set with at most one element: {} is         *)
(* undefined / NULL, {v} is the value v.  A query is the description the   *)
(* builder composes (joins, where clauses, selections); Execute runs it    *)
(* against the tables of db with SQL's rules for NULL.                     *)
(***************************************************************************)
EXTENDS Integers, Sequences, FiniteSets, TLC

VARIABLES db, options, before, args, query, result, pc

vars == <<db, options, before, args, query, result, pc>>

(***************************************************************************)
(* Bounds of the model.                                                    *)
(***************************************************************************)
\* timestamps are 1..MaxDate
MaxDate == 2
\* OptionalBetween is applied to the integers -MaxInt..MaxInt
MaxInt == 3
\* at most MaxFaces face records in asset_faces
MaxFaces == 3

Dates == 1..MaxDate
AssetIds == {"a1", "a2", "a3"}
PersonIds == {"p1", "p2"}
AlbumIds == {"b1"}
StackIds == {"s1"}
Uuids == AssetIds \cup PersonIds \cup AlbumIds \cup StackIds \cup {"u1", "l1", "d1"}

NULL == {}
undefined == {}

\* the value of a set optional
Val(x) == CHOOSE v \in x : TRUE

\* the elements of a sequence
Range(s) == {s[i] : i \in 1..Len(s)}

(***************************************************************************)
(* JavaScript truthiness, by type of the value: !!x.                       *)
(***************************************************************************)
TruthyBool(x) == x = {TRUE}
TruthyString(x) == x # undefined /\ x # {""}
TruthyNumber(x) == x # undefined /\ x # {0}
\* Date objects and arrays (the empty array included) are truthy
TruthyObject(x) == x # undefined

(***************************************************************************)
(* OptionalBetween(from, to): typeorm find operators.                      *)
(***************************************************************************)
Between(from, to) == [type |-> "between", value |-> <<from, to>>]
MoreThanOrEqual(v) == [type |-> "moreThanOrEqual", value |-> <<v>>]
LessThanOrEqual(v) == [type |-> "lessThanOrEqual", value |-> <<v>>]

\* the rows a find operator selects: column BETWEEN a AND b, column >= a, column <= b
Matches(operator, v) ==
  CASE operator.type = "between" -> operator.value[1] <= v /\ v <= operator.value[2]
    [] operator.type = "moreThanOrEqual" -> v >= operator.value[1]
    [] operator.type = "lessThanOrEqual" -> v <= operator.value[1]

\* a where-option left undefined constrains nothing
MatchesOptional(r, v) == r = undefined \/ Matches(Val(r), v)

\* if (from && to) ... else if (from) ... else if (to) ...; undefined otherwise
OptionalBetween(from, to) ==
  IF TruthyNumber(from) /\ TruthyNumber(to) THEN {Between(Val(from), Val(to))}
  ELSE IF TruthyNumber(from) THEN {MoreThanOrEqual(Val(from))}
  ELSE IF TruthyNumber(to) THEN {LessThanOrEqual(Val(to))}
  ELSE undefined

Ints == (0 - MaxInt)..MaxInt
OptionalInts == {undefined} \cup {{i} : i \in Ints}

NoDb == [assets |-> {}, exif |-> {}, asset_faces |-> {}, person |-> {}, asset_stack |-> {},
         albums_assets_assets |-> {}]
NoOptions == <<>>
NoQuery == <<>>

InitRange ==
  /\ args \in [from : OptionalInts, to : OptionalInts]
  /\ db = NoDb
  /\ options = NoOptions
  /\ before = NoOptions
  /\ query = NoQuery
  /\ result = undefined
  /\ pc = "start"

CallOptionalBetween ==
  /\ pc = "start"
  /\ result' = OptionalBetween(args.from, args.to)
  /\ pc' = "done"
  /\ UNCHANGED <<db, options, before, args, query>>

NextRange == CallOptionalBetween

SpecRange == InitRange /\ [][NextRange]_vars

\* C6: OptionalBetween returns no constraint when both bounds are absent, a
\* predicate matching exactly the values >= a when only a is given, exactly the
\* values <= b when only b is given, and exactly the closed interval [a, b] when
\* both are given, for all integers a and b of the range (0 included).
C6_OptionalBetweenIsRange ==
  pc = "done" =>
    LET from == args.from
        to == args.to
    IN /\ (from = undefined /\ to = undefined) => result = undefined
       /\ (from # undefined /\ to = undefined) =>
            /\ result # undefined
            /\ \A v \in Ints : MatchesOptional(result, v) <=> v >= Val(from)
       /\ (from = undefined /\ to # undefined) =>
            /\ result # undefined
            /\ \A v \in Ints : MatchesOptional(result, v) <=> v <= Val(to)
       /\ (from # undefined /\ to # undefined) =>
            /\ result # undefined
            /\ \A v \in Ints : MatchesOptional(result, v) <=> (Val(from) <= v /\ v <= Val(to))

(***************************************************************************)
(* Migration AddAssetFilesTable1723859965844.                              *)
(*                                                                         *)
(* db.columns maps each existing table to its column names, db.assets maps *)
(* an asset id to its row (a function of the assets columns) and           *)
(* db.asset_files is the set of rows of asset_files (the generated columns *)
(* id, createdAt, updatedAt and the NULL deletedAt are not carried in the  *)
(* rows).  A statement yields [db, error]; a failed statement changes      *)
(* nothing and the statements after it are not run.                        *)
(***************************************************************************)
LegacyPaths == {NULL, {""}, {"upload/thumbs/1.jpeg"}}

AssetFilesColumns == {"id", "assetId", "createdAt", "updatedAt", "deletedAt", "type", "path"}

\* PostgreSQL folds an identifier written without double quotes to lower case
Lower(name) == IF name = "assetId" THEN "assetid" ELSE name
Ident(name, quoted) == IF quoted THEN name ELSE Lower(name)

Ok(d) == [db |-> d, error |-> FALSE]
Failed(d) == [db |-> d, error |-> TRUE]
\* await a; await b: b runs on the outcome of a unless a threw
AndThen(r, Statement(_)) == IF r.error THEN r ELSE Statement(r.db)

HasTable(d, table) == table \in DOMAIN d.columns
HasColumn(d, table, column) == HasTable(d, table) /\ column \in d.columns[table]

\* CREATE TABLE "asset_files" (...), its unique index and its foreign key
CreateAssetFiles(d) ==
  IF HasTable(d, "asset_files") \/ ~HasColumn(d, "assets", "id") THEN Failed(d)
  ELSE Ok([d EXCEPT !.columns = [t \in DOMAIN d.columns \cup {"asset_files"} |->
                                   IF t = "asset_files" THEN AssetFilesColumns ELSE d.columns[t]],
                    !.asset_files = {}])

\* INSERT INTO "asset_files" ("assetId", "type", "path")
\*   SELECT "id", '<type>', "<column>" FROM "assets"
\*   WHERE "<column>" IS NOT NULL AND "<column>" != ''
InsertPaths(d, type, column) ==
  IF ~(/\ HasColumn(d, "asset_files", Ident("assetId", TRUE))
       /\ HasColumn(d, "asset_files", Ident("type", TRUE))
       /\ HasColumn(d, "asset_files", Ident("path", TRUE))
       /\ HasColumn(d, "assets", Ident("id", TRUE))
       /\ HasColumn(d, "assets", Ident(column, TRUE)))
  THEN Failed(d)
  ELSE LET rows == {[assetId |-> a, type |-> type, path |-> Val(d.assets[a][column])] :
                      a \in {x \in DOMAIN d.assets :
                               d.assets[x][column] # NULL /\ d.assets[x][column] # {""}}}
       IN \* the unique index UQ_assetId_type
          IF \E r \in rows : \E f \in d.asset_files : f.assetId = r.assetId /\ f.type = r.type
          THEN Failed(d)
          ELSE Ok([d EXCEPT !.asset_files = @ \cup rows])

\* ALTER TABLE "assets" DROP COLUMN "<column>"
DropColumn(d, column) ==
  IF ~HasColumn(d, "assets", column) THEN Failed(d)
  ELSE Ok([d EXCEPT !.columns["assets"] = @ \ {column},
                    !.assets = [a \in DOMAIN d.assets |->
                                  [c \in DOMAIN d.assets[a] \ {column} |-> d.assets[a][c]]]])

\* ALTER TABLE "assets" ADD "<column>" character varying [DEFAULT <default>]
AddColumn(d, column, default) ==
  IF HasColumn(d, "assets", column) THEN Failed(d)
  ELSE Ok([d EXCEPT !.columns["assets"] = @ \cup {column},
                    !.assets = [a \in DOMAIN d.assets |->
                                  [c \in DOMAIN d.assets[a] \cup {column} |->
                                     IF c = column THEN default ELSE d.assets[a][c]]]])

\* UPDATE "assets" SET "<column>" = "asset_files".path FROM "asset_files"
\*   WHERE "assets".id = "asset_files".assetId AND "asset_files".type = '<type>'
UpdatePaths(d, column, type) ==
  LET id == Ident("id", FALSE)
      assetId == Ident("assetId", FALSE)
      typeCol == Ident("type", FALSE)
      path == Ident("path", FALSE)
  IN IF ~(/\ HasColumn(d, "assets", Ident(column, TRUE))
          /\ HasColumn(d, "assets", id)
          /\ HasColumn(d, "asset_files", assetId)
          /\ HasColumn(d, "asset_files", typeCol)
          /\ HasColumn(d, "asset_files", path))
     THEN Failed(d)
     ELSE Ok([d EXCEPT !.assets = [a \in DOMAIN d.assets |->
                 LET from == {f \in d.asset_files : f[assetId] = a /\ f[typeCol] = type}
                 IN IF from = {} THEN d.assets[a]
                    ELSE [d.assets[a] EXCEPT ![column] = {(CHOOSE f \in from : TRUE)[path]}]]])

\* ALTER TABLE "asset_files" DROP CONSTRAINT ...; DROP TABLE "asset_files"
DropAssetFiles(d) ==
  IF ~HasTable(d, "asset_files") THEN Failed(d)
  ELSE Ok([d EXCEPT !.columns = [t \in DOMAIN d.columns \ {"asset_files"} |-> d.columns[t]],
                    !.asset_files = {}])

InsertPreview(d) == InsertPaths(d, "preview", "previewPath")
DropPreviewPath(d) == DropColumn(d, "previewPath")
InsertThumbnail(d) == InsertPaths(d, "thumbnail", "thumbnailPath")
DropThumbnailPath(d) == DropColumn(d, "thumbnailPath")
AddPreviewPath(d) == AddColumn(d, "previewPath", NULL)
UpdatePreviewPath(d) == UpdatePaths(d, "previewPath", "preview")
AddThumbnailPath(d) == AddColumn(d, "thumbnailPath", {""})
UpdateThumbnailPath(d) == UpdatePaths(d, "thumbnailPath", "thumbnail")

up(d) ==
  AndThen(AndThen(AndThen(AndThen(CreateAssetFiles(d),
    InsertPreview), DropPreviewPath), InsertThumbnail), DropThumbnailPath)

down(d) ==
  AndThen(AndThen(AndThen(AndThen(AddPreviewPath(d),
    UpdatePreviewPath), AddThumbnailPath), UpdateThumbnailPath), DropAssetFiles)

InitMigration ==
  /\ \E rows \in [AssetIds -> [id : {NULL}, previewPath : LegacyPaths, thumbnailPath : LegacyPaths]] :
       db = [columns |-> [t \in {"assets"} |-> {"id", "previewPath", "thumbnailPath"}],
             assets |-> [a \in AssetIds |-> [rows[a] EXCEPT !.id = {a}]],
             asset_files |-> {}]
  /\ before = db.assets
  /\ options = NoOptions
  /\ args = <<>>
  /\ query = NoQuery
  /\ result = undefined
  /\ pc = "start"

\* the runner either wraps the migration in a transaction, and a failure rolls
\* every statement back, or it does not, and the statements run so far stay
RunMigration(outcome, from, to) ==
  /\ pc = from
  /\ pc' = to
  /\ result' = {[error |-> outcome.error]}
  /\ \/ db' = outcome.db
     \/ outcome.error /\ db' = db
  /\ UNCHANGED <<options, before, args, query>>

MigrationUp == RunMigration(up(db), "start", "up")

MigrationDown == RunMigration(down(db), "up", "down")

NextMigration == MigrationUp \/ MigrationDown

SpecMigration == InitMigration /\ [][NextMigration]_vars

\* C5: for every asset whose legacy previewPath is non-null (the empty string
\* included), running up and then down leaves the asset's previewPath equal to
\* its value before up.
C5_UpDownRestoresPreviewPath ==
  pc = "down" =>
    \A a \in AssetIds :
      before[a].previewPath # NULL =>
        /\ HasColumn(db, "assets", "previewPath")
        /\ db.assets[a].previewPath = before[a].previewPath

(***************************************************************************)
(* The relational store the queries run against.                           *)
(*                                                                         *)
(* db maps a table name to its set of rows; a row is a function from the   *)
(* table's column names to values ({} is NULL).                            *)
(***************************************************************************)
AssetColumns ==
  {"id", "createdAt", "updatedAt", "deletedAt", "fileCreatedAt", "checksum", "deviceAssetId",
   "deviceId", "libraryId", "ownerId", "encodedVideoPath", "originalPath", "previewPath",
   "thumbnailPath", "originalFileName", "isFavorite", "isOffline", "isVisible", "type",
   "isArchived", "livePhotoVideoId", "stackId"}
ExifColumns == {"assetId", "city", "country", "lensModel", "make", "model", "state"}
FaceColumns == {"id", "assetId", "personId"}
PersonColumns == {"id", "name"}
StackColumns == {"id", "primaryAssetId"}
AlbumAssetColumns == {"albumsId", "assetsId"}

Columns(table) ==
  CASE table = "assets" -> AssetColumns
    [] table = "exif" -> ExifColumns
    [] table = "asset_faces" -> FaceColumns
    [] table = "person" -> PersonColumns
    [] table = "asset_stack" -> StackColumns
    [] table = "albums_assets_assets" -> AlbumAssetColumns
    [] table = "valid" -> {"assetId"}

\* the columns of type uuid: a value bound to one of them is read as a uuid
UuidColumns ==
  {"id", "assetId", "assetsId", "albumsId", "personId", "ownerId", "libraryId", "stackId",
   "primaryAssetId", "livePhotoVideoId"}

\* the row a left join supplies when nothing matches
NullRow(table) == [c \in Columns(table) |-> NULL]

\* f_unaccent(x) under ilike: accents and letter case do not count
Unaccent(str) == IF str = "IMG_1.JPG" THEN "img_1.jpg" ELSE str

(***************************************************************************)
(* Query descriptions (kysely's SelectQueryNode) and their constructors.   *)
(***************************************************************************)
\* a column reference 'table.column' is <<table, column>>; 'column' is <<"", column>>
Ref(table, column) == <<table, column>>

SelectFrom(table, as) ==
  [with |-> {}, from |-> [table |-> table, as |-> as], joins |-> <<>>, wheres |-> <<>>,
   selections |-> <<>>, plugins |-> <<>>]

\* qb.where(lhs, op, value): the right-hand side is bound as a parameter value
Where(lhs, op, value) ==
  [kind |-> "cmp", lhs |-> lhs, op |-> op, rhs |-> [kind |-> "value", v |-> value, cast |-> ""]]
\* qb.whereRef(lhs, op, rhs): the right-hand side is a column reference
WhereRef(lhs, op, rhs) ==
  [kind |-> "cmp", lhs |-> lhs, op |-> op, rhs |-> [kind |-> "ref", v |-> rhs, cast |-> ""]]
\* asUuid(id): ${id}::uuid
asUuid(id) == [kind |-> "value", v |-> id, cast |-> "uuid"]
\* anyUuid(ids): any('{ids}'::uuid[])
anyUuid(ids) == [kind |-> "any", v |-> Range(ids), cast |-> "uuid"]
WhereSql(lhs, op, rhs) == [kind |-> "cmp", lhs |-> lhs, op |-> op, rhs |-> rhs]
\* f_unaccent(lhs) ilike f_unaccent(value)
WhereUnaccent(lhs, value) ==
  [kind |-> "cmp", lhs |-> lhs, op |-> "ilike", rhs |-> [kind |-> "value", v |-> value, cast |-> ""]]
Or(preds) == [kind |-> "or", preds |-> preds]
NotExists(sub) == [kind |-> "not exists", sub |-> sub]

AddWhere(qb, pred) == [qb EXCEPT !.wheres = Append(@, pred)]
AddJoin(qb, type, table, l, r) ==
  [qb EXCEPT !.joins = Append(@, [type |-> type, table |-> table, on |-> <<l, r>>])]
AddSelect(qb, selection) == [qb EXCEPT !.selections = Append(@, selection)]
LeftJoin(qb, table, l, r) == AddJoin(qb, "left", table, l, r)
InnerJoin(qb, table, l, r) == AddJoin(qb, "inner", table, l, r)

\* qb.$if(condition, fn)
If(qb, condition, Fn(_)) == IF condition THEN Fn(qb) ELSE qb

(***************************************************************************)
(* Execution of a query description, with SQL's three-valued logic.        *)
(* A context maps the table aliases in scope to their current rows; a      *)
(* subquery sees the context of the row it is evaluated for.               *)
(***************************************************************************)
RECURSIVE Rows(_, _, _), Truth(_, _, _), TruthOr(_, _, _, _), JoinRows(_, _, _, _)

\* the value of a column reference in a context
Resolve(ctx, ref) ==
  IF ref[1] = ""
  THEN ctx[CHOOSE t \in DOMAIN ctx : ref[2] \in DOMAIN ctx[t]][ref[2]]
  ELSE ctx[ref[1]][ref[2]]

Compare(l, op, r) ==
  CASE op = "=" -> l = r
    [] op = "!=" -> l # r
    [] op = "<=" -> l <= r
    [] op = ">=" -> l >= r
    [] op = "ilike" -> Unaccent(l) = Unaccent(r)

Bool3(b) == IF b THEN "true" ELSE "false"

Truth(d, pred, ctx) ==
  CASE pred.kind = "cmp" ->
         LET l == Resolve(ctx, pred.lhs)
             r == IF pred.rhs.kind = "ref" THEN Resolve(ctx, pred.rhs.v) ELSE pred.rhs.v
         IN CASE pred.op = "is" -> Bool3(l = NULL)
              [] pred.op = "is not" -> Bool3(l # NULL)
              [] pred.rhs.kind = "any" ->
                   IF l = NULL THEN "unknown" ELSE Bool3(Val(l) \in r)
              [] OTHER ->
                   IF l = NULL \/ r = NULL THEN "unknown"
                   ELSE Bool3(Compare(Val(l), pred.op, Val(r)))
    [] pred.kind = "or" -> TruthOr(d, pred.preds, ctx, 1)
    [] pred.kind = "not exists" -> Bool3(Rows(d, pred.sub, ctx) = {})

TruthOr(d, preds, ctx, i) ==
  IF i > Len(preds) THEN "false"
  ELSE LET a == Truth(d, preds[i], ctx)
           b == TruthOr(d, preds, ctx, i + 1)
       IN IF a = "true" \/ b = "true" THEN "true"
          ELSE IF a = "unknown" \/ b = "unknown" THEN "unknown"
          ELSE "false"

\* WITH <name> AS (SELECT <groupBy> FROM ... WHERE ... GROUP BY <groupBy>
\*                 HAVING count(<column>) >= <value>); count skips NULLs
CteRows(d, cte) ==
  LET rows == Rows(d, cte.query, <<>>)
      key(ctx) == Resolve(ctx, Ref("", cte.groupBy))
      count(k) == Cardinality({ctx \in rows :
                     key(ctx) = k /\ Resolve(ctx, Ref("", cte.having.column)) # NULL})
  IN {[c \in {cte.groupBy} |-> k] : k \in {g \in {key(ctx) : ctx \in rows} : count(g) >= cte.having.value}}

Table(d, q, name) ==
  IF q.with # {} /\ name = Val(q.with).name THEN CteRows(d, Val(q.with)) ELSE d[name]

JoinRows(d, q, ctxs, i) ==
  IF i > Len(q.joins) THEN ctxs
  ELSE LET j == q.joins[i]
           matches(ctx) == {r \in Table(d, q, j.table) :
                              LET c == (j.table :> r) @@ ctx
                                  l == Resolve(c, j.on[1])
                                  rr == Resolve(c, j.on[2])
                              IN l # NULL /\ rr # NULL /\ l = rr}
           joined == UNION {
             IF matches(ctx) = {} /\ j.type = "left"
             THEN {(j.table :> NullRow(j.table)) @@ ctx}
             ELSE {(j.table :> r) @@ ctx : r \in matches(ctx)} : ctx \in ctxs}
       IN JoinRows(d, q, joined, i + 1)

\* the joined rows of q that satisfy every where clause (the clauses are ANDed)
Rows(d, q, outer) ==
  LET base == {(q.from.as :> r) @@ outer : r \in Table(d, q, q.from.table)}
  IN {ctx \in JoinRows(d, q, base, 1) :
        \A i \in 1..Len(q.wheres) : Truth(d, q.wheres[i], ctx) = "true"}

(***************************************************************************)
(* Selections: JSON values built from the rows in scope.  A JSON object is *)
(* a function from keys to values; a JSON array built by json_agg is the   *)
(* set of its elements (the rows aggregated here are pairwise distinct and *)
(* the order of an aggregate without ORDER BY is not fixed).               *)
(***************************************************************************)
StripNulls(row) == [c \in {k \in DOMAIN row : row[k] # NULL} |-> row[c]]

\* to_jsonb(t): the row in scope under alias t; a whole-row reference to the
\* table of a left join that matched nothing is NULL.  jsonb_insert and
\* jsonb_strip_nulls are strict: NULL in, NULL out.
RECURSIVE Json(_, _, _)
Json(d, expr, ctx) ==
  CASE expr.fn = "to_jsonb" ->
         IF ctx[expr.table] = [c \in DOMAIN ctx[expr.table] |-> NULL] THEN NULL
         ELSE {ctx[expr.table]}
    [] expr.fn = "jsonb_strip_nulls" ->
         LET arg == Json(d, expr.arg, ctx)
         IN IF arg = NULL THEN NULL ELSE {StripNulls(Val(arg))}
    [] expr.fn = "jsonb_insert" ->
         LET target == Json(d, expr.target, ctx)
             value == Json(d, expr.value, ctx)
         IN IF target = NULL \/ value = NULL THEN NULL
            ELSE {(expr.key :> Val(value)) @@ Val(target)}
    [] expr.fn = "case" ->
         IF Truth(d, expr.when, ctx) = "true" THEN Json(d, expr.then, ctx)
         ELSE Json(d, expr.else, ctx)

ToJsonb(table) == [fn |-> "to_jsonb", table |-> table]
StripNullsOf(arg) == [fn |-> "jsonb_strip_nulls", arg |-> arg]
JsonbInsert(target, key, value) ==
  [fn |-> "jsonb_insert", target |-> target, key |-> key, value |-> value]
CaseWhen(when, then, else) == [fn |-> "case", when |-> when, then |-> then, else |-> else]

\* (SELECT json_agg(<element>) FROM ...): NULL when no row is aggregated; the
\* elements aggregated here are built from the from-table's row, never NULL
Aggregate(d, sub, ctx) ==
  LET rows == Rows(d, sub, ctx)
  IN IF rows = {} THEN NULL
     ELSE {{Val(Json(d, sub.selections[1].element, r)) : r \in rows}}

Select(d, selection, ctx) ==
  CASE selection.kind = "json" -> Json(d, selection.expr, ctx)
    [] selection.kind = "subquery" -> Aggregate(d, selection.sub, ctx)

\* the output row: the selected columns of the from table and every aliased selection
Output(d, q, ctx) ==
  LET aliased == {i \in 1..Len(q.selections) : q.selections[i].kind # "all"}
      names == {q.selections[i].as : i \in aliased}
      all == IF \E i \in 1..Len(q.selections) : q.selections[i].kind = "all"
             THEN ctx[q.from.as] ELSE <<>>
  IN [n \in names |->
        Select(d, q.selections[CHOOSE i \in aliased :
                                  /\ q.selections[i].as = n
                                  /\ \A k \in aliased : q.selections[k].as = n => k <= i], ctx)]
     @@ all

(***************************************************************************)
(* DeduplicateJoinsPlugin: when the query is compiled, a join equal to an  *)
(* earlier join of the same query is dropped.  The subqueries built in     *)
(* this module carry at most one join each.                                *)
(***************************************************************************)
RECURSIVE Deduplicate(_)
Deduplicate(joins) ==
  IF joins = <<>> THEN <<>>
  ELSE LET front == Deduplicate(SubSeq(joins, 1, Len(joins) - 1))
           last == joins[Len(joins)]
       IN IF \E i \in 1..Len(front) : front[i] = last THEN front ELSE Append(front, last)

DeduplicateJoinsPlugin == "DeduplicateJoinsPlugin"

Compile(q) ==
  IF \E i \in 1..Len(q.plugins) : q.plugins[i] = DeduplicateJoinsPlugin
  THEN [q EXCEPT !.joins = Deduplicate(@)]
  ELSE q

\* a parameter bound where a uuid is expected must read as a uuid
RECURSIVE PredError(_), QueryError(_)
PredError(pred) ==
  CASE pred.kind = "cmp" ->
         /\ pred.rhs.kind \in {"value", "any"}
         /\ pred.op \notin {"is", "is not"}
         /\ pred.rhs.cast = "uuid" \/ pred.lhs[2] \in UuidColumns
         /\ IF pred.rhs.kind = "any" THEN \E v \in pred.rhs.v : v \notin Uuids
            ELSE pred.rhs.v # NULL /\ Val(pred.rhs.v) \notin Uuids
    [] pred.kind = "or" -> \E i \in 1..Len(pred.preds) : PredError(pred.preds[i])
    [] pred.kind = "not exists" -> QueryError(pred.sub)

QueryError(q) ==
  \/ \E i \in 1..Len(q.wheres) : PredError(q.wheres[i])
  \/ q.with # {} /\ QueryError(Val(q.with).query)

\* running the composed query: the store rejects it or returns its rows
Execute(d, q) ==
  LET sql == Compile(q)
  IN IF QueryError(sql) THEN [error |-> TRUE, rows |-> {}]
     ELSE [error |-> FALSE, rows |-> {Output(d, sql, ctx) : ctx \in Rows(d, sql, <<>>)}]

(***************************************************************************)
(* The relation attachers and the people filter.                           *)
(***************************************************************************)
SelectAll(qb, table) == AddSelect(qb, [kind |-> "all", as |-> table])
SelectJson(qb, expr, as) == AddSelect(qb, [kind |-> "json", as |-> as, expr |-> expr])
SelectSubquery(qb, sub, as) == AddSelect(qb, [kind |-> "subquery", as |-> as, sub |-> sub])
SelectAgg(qb, element, as) == AddSelect(qb, [kind |-> "agg", as |-> as, element |-> element])

\* a faulty withExif: the projection joins exif with an inner join of its own
withExif_InnerJoin(qb) ==
  SelectJson(InnerJoin(qb, "exif", Ref("assets", "id"), Ref("exif", "assetId")),
             StripNullsOf(ToJsonb("exif")), "exifInfo")

withExif(qb) ==
  SelectJson(LeftJoin(qb, "exif", Ref("assets", "id"), Ref("exif", "assetId")),
             StripNullsOf(ToJsonb("exif")), "exifInfo")

\* a faulty withFacesAndPeople: faces are joined to their person with an inner join
withFacesAndPeople_InnerJoin ==
  SelectAgg(
    AddWhere(
      InnerJoin(SelectFrom("asset_faces", "asset_faces"),
                "person", Ref("person", "id"), Ref("asset_faces", "personId")),
      WhereRef(Ref("asset_faces", "assetId"), "=", Ref("assets", "id"))),
    CaseWhen(Where(Ref("person", "id"), "is not", NULL),
             JsonbInsert(ToJsonb("asset_faces"), "person", ToJsonb("person")),
             ToJsonb("asset_faces")),
    "faces")

\* the aliased subquery selected as 'faces'
withFacesAndPeople ==
  SelectAgg(
    AddWhere(
      LeftJoin(SelectFrom("asset_faces", "asset_faces"),
               "person", Ref("person", "id"), Ref("asset_faces", "personId")),
      WhereRef(Ref("asset_faces", "assetId"), "=", Ref("assets", "id"))),
    CaseWhen(Where(Ref("person", "id"), "is not", NULL),
             JsonbInsert(ToJsonb("asset_faces"), "person", ToJsonb("person")),
             ToJsonb("asset_faces")),
    "faces")

hasPeopleCte(kysely, personIds) ==
  [kysely EXCEPT !.with =
     {[name |-> "valid",
       query |-> AddWhere(SelectFrom("asset_faces", "asset_faces"),
                          WhereSql(Ref("", "personId"), "=", anyUuid(personIds))),
       groupBy |-> "assetId",
       having |-> [fn |-> "count", column |-> "personId", op |-> ">=",
                   value |-> Len(personIds)]]}]

\* db.selectFrom(table): a query on the connection, with its CTEs and plugins
SelectFromDb(kysely, table) ==
  [SelectFrom(table, table) EXCEPT !.with = kysely.with, !.plugins = kysely.plugins]

hasPeople(kysely, personIds) ==
  IF TruthyObject(personIds) /\ Len(Val(personIds)) > 0
  THEN InnerJoin(SelectFromDb(hasPeopleCte(kysely, Val(personIds)), "assets"),
                 "valid", Ref("valid", "assetId"), Ref("assets", "id"))
  ELSE SelectFromDb(kysely, "assets")

withStack(qb, assets, withDeleted) ==
  LET joined == SelectJson(
                  LeftJoin(qb, "asset_stack", Ref("asset_stack", "primaryAssetId"),
                           Ref("assets", "id")),
                  ToJsonb("asset_stack"), "stack")
      filtered == AddWhere(joined,
                    Or(<<WhereRef(Ref("asset_stack", "primaryAssetId"), "=", Ref("assets", "id")),
                         Where(Ref("assets", "stackId"), "is", NULL)>>))
      stacked == If(
                   AddWhere(
                     AddWhere(
                       SelectAgg(SelectFrom("assets", "stacked"),
                                 StripNullsOf(ToJsonb("stacked")), "stackedAssets"),
                       WhereRef(Ref("asset_stack", "id"), "=", Ref("assets", "stackId"))),
                     WhereRef(Ref("asset_stack", "primaryAssetId"), "!=", Ref("assets", "id"))),
                   ~TruthyBool(withDeleted),
                   LAMBDA q : AddWhere(q, Where(Ref("stacked", "deletedAt"), "is", NULL)))
  IN If(filtered, assets, LAMBDA q : SelectSubquery(q, stacked, "stackedAssets"))

\* a connection: the CTEs and plugins the queries started on it carry
Kysely == [with |-> {}, plugins |-> <<>>]
WithPlugin(kysely, plugin) == [kysely EXCEPT !.plugins = Append(@, plugin)]

(***************************************************************************)
(* Rows of the store.                                                      *)
(***************************************************************************)
Asset(id) ==
  [id |-> {id}, createdAt |-> {1}, updatedAt |-> {1}, deletedAt |-> NULL, fileCreatedAt |-> {1},
   checksum |-> {"sha1"}, deviceAssetId |-> {"d1"}, deviceId |-> {"d1"}, libraryId |-> {"l1"},
   ownerId |-> {"u1"}, encodedVideoPath |-> NULL, originalPath |-> {"upload/1.jpg"},
   previewPath |-> NULL, thumbnailPath |-> NULL, originalFileName |-> {"IMG_1.JPG"},
   isFavorite |-> {FALSE}, isOffline |-> {FALSE}, isVisible |-> {TRUE}, type |-> {"IMAGE"},
   isArchived |-> {FALSE}, livePhotoVideoId |-> NULL, stackId |-> NULL]

\* the ids in a JSON array of rows (NULL: no element)
IdsOf(array) == IF array = NULL THEN {} ELSE {Val(e.id) : e \in Val(array)}

(***************************************************************************)
(* withStack, on db.selectFrom('assets').selectAll('assets').              *)
(***************************************************************************)
\* no stack, or the stack s1 with its primary asset among its members
StackDbs ==
  LET rows(stackOf, deleted) ==
        {[Asset(a) EXCEPT !.stackId = stackOf[a], !.deletedAt = deleted[a]] : a \in AssetIds}
  IN {[NoDb EXCEPT !.assets = rows([a \in AssetIds |-> NULL], deleted)] :
        deleted \in [AssetIds -> {NULL, {1}}]}
     \cup
     {[NoDb EXCEPT !.assets = rows(m.stackOf, m.deleted),
                   !.asset_stack = {[id |-> {"s1"}, primaryAssetId |-> {m.primary}]}] :
        m \in {x \in [primary : AssetIds, stackOf : [AssetIds -> {NULL, {"s1"}}],
                      deleted : [AssetIds -> {NULL, {1}}]] :
                 x.stackOf[x.primary] = {"s1"}}}

InitStack ==
  /\ db \in StackDbs
  /\ args \in [assets : BOOLEAN, withDeleted : {undefined, {TRUE}, {FALSE}}]
  /\ options = NoOptions
  /\ before = NoOptions
  /\ query = NoQuery
  /\ result = undefined
  /\ pc = "start"

CallWithStack ==
  /\ pc = "start"
  /\ query' = withStack(SelectAll(SelectFromDb(Kysely, "assets"), "assets"),
                        args.assets, args.withDeleted)
  /\ result' = Execute(db, query')
  /\ pc' = "done"
  /\ UNCHANGED <<db, options, before, args>>

NextStack == CallWithStack

SpecStack == InitStack /\ [][NextStack]_vars

\* the other members of the stack whose primary asset is `primary`
Siblings(d, stack, withDeleted) ==
  {Val(a.id) : a \in {x \in d.assets :
                        /\ x.stackId = stack.id
                        /\ x.id # stack.primaryAssetId
                        /\ (withDeleted \/ x.deletedAt = NULL)}}

\* C4: with assets: true and withDeleted unset, the row of a stack's primary
\* asset carries in stackedAssets exactly the other assets of that stack that
\* are not soft-deleted.
C4_StackedAssetsAreLiveSiblings ==
  (pc = "done" /\ args.assets /\ args.withDeleted = undefined) =>
    \A stack \in db.asset_stack :
      \E row \in result.rows :
        /\ row.id = stack.primaryAssetId
        /\ IdsOf(row.stackedAssets) = Siblings(db, stack, FALSE)

(***************************************************************************)
(* hasPeople and withFacesAndPeople, on a store with faces.                *)
(***************************************************************************)
FaceIds == <<"f1", "f2", "f3", "f4", "f5">>
FaceAssets == {"a1", "a2"}

Person(id) == [id |-> {id}, name |-> {"name"}]

\* n face records; each is on an asset and is linked to a person or to none
FaceTables ==
  UNION {{{[id |-> {FaceIds[i]}, assetId |-> {t[i][1]}, personId |-> t[i][2]] : i \in 1..n} :
            t \in [1..n -> FaceAssets \X ({NULL} \cup {{p} : p \in PersonIds})]} :
         n \in 0..MaxFaces}

PeopleDbs ==
  {[NoDb EXCEPT !.assets = {Asset(a) : a \in AssetIds},
                !.person = {Person(p) : p \in PersonIds},
                !.asset_faces = faces] : faces \in FaceTables}

PersonIdLists ==
  {<<>>} \cup {<<p>> : p \in PersonIds} \cup {<<p, q>> : p \in PersonIds, q \in PersonIds}

InitPeople ==
  /\ db \in PeopleDbs
  /\ args \in [personIds : {undefined} \cup {{l} : l \in PersonIdLists}]
  /\ options = NoOptions
  /\ before = NoOptions
  /\ query = NoQuery
  /\ result = undefined
  /\ pc = "start"

CallHasPeople ==
  /\ pc = "start"
  /\ query' = SelectAll(hasPeople(Kysely, args.personIds), "assets")
  /\ result' = Execute(db, query')
  /\ pc' = "hasPeople"
  /\ UNCHANGED <<db, options, before, args>>

CallWithFacesAndPeople ==
  /\ pc = "start"
  /\ query' = SelectSubquery(SelectAll(SelectFromDb(Kysely, "assets"), "assets"),
                             withFacesAndPeople, "faces")
  /\ result' = Execute(db, query')
  /\ pc' = "faces"
  /\ UNCHANGED <<db, options, before, args>>

NextPeople == CallHasPeople \/ CallWithFacesAndPeople

SpecPeople == InitPeople /\ [][NextPeople]_vars

FacesOf(d, id) == {f \in d.asset_faces : f.assetId = id}
\* the persons the faces of an asset are linked to
PeopleOf(d, id) == {Val(f.personId) : f \in {x \in FacesOf(d, id) : x.personId # NULL}}

\* C3: for a non-empty set of requested person ids, hasPeople keeps an asset
\* only if its face records cover all requested ids (an asset may have several
\* faces of one person); an asset covering a strict subset is excluded.
C3_HasPeopleCoversAll ==
  (/\ pc = "hasPeople"
   /\ args.personIds # undefined
   /\ Len(Val(args.personIds)) > 0
   /\ Cardinality(Range(Val(args.personIds))) = Len(Val(args.personIds))) =>
    \A row \in result.rows : Range(Val(args.personIds)) \subseteq PeopleOf(db, row.id)

\* C7: for every asset with at least one face, withFacesAndPeople yields one
\* JSON array on the asset's single row, with exactly one element per face
\* record of the asset; the element of a face linked to an existing person is
\* the face with that person nested under "person", and the element of a face
\* linked to no person is the face unchanged.
C7_FacesArrayPerAsset ==
  pc = "faces" =>
    \A a \in db.assets :
      FacesOf(db, a.id) # {} =>
        /\ Cardinality({row \in result.rows : row.id = a.id}) = 1
        /\ \A row \in result.rows :
             row.id = a.id =>
               /\ row.faces # NULL
               /\ Cardinality(Val(row.faces)) = Cardinality(FacesOf(db, a.id))
               /\ \A f \in FacesOf(db, a.id) :
                    \E e \in Val(row.faces) :
                      /\ e.id = f.id
                      /\ ("person" \in DOMAIN e) <=>
                           (\E p \in db.person : f.personId # NULL /\ p.id = f.personId)
                      /\ IF "person" \in DOMAIN e
                         THEN /\ e.person \in db.person
                              /\ e.person.id = f.personId
                              /\ [c \in FaceColumns |-> e[c]] = f
                              /\ DOMAIN e = FaceColumns \cup {"person"}
                         ELSE e = f

\* an asset with two faces, one linked to a person and one not, was projected
C7_Witness ==
  /\ pc = "faces"
  /\ \E row \in result.rows :
       /\ row.faces # NULL
       /\ Cardinality(Val(row.faces)) = 2
       /\ \E e1, e2 \in Val(row.faces) : "person" \in DOMAIN e1 /\ "person" \notin DOMAIN e2

(***************************************************************************)
(* searchAssetBuilder(kysely, options).                                    *)
(***************************************************************************)
OptionNames ==
  {"createdBefore", "createdAfter", "updatedBefore", "updatedAfter", "trashedBefore",
   "trashedAfter", "takenBefore", "takenAfter", "city", "country", "lensModel", "make", "model",
   "state", "checksum", "deviceAssetId", "deviceId", "id", "libraryId", "userIds",
   "encodedVideoPath", "originalPath", "previewPath", "thumbnailPath", "originalFileName",
   "isFavorite", "isOffline", "isVisible", "type", "isArchived", "isEncoded", "isMotion",
   "isNotInAlbum", "withExif", "withFaces", "withPeople", "personIds", "withDeleted",
   "withArchived"}

\* options.isArchived ??= options.withArchived ? undefined : false
DefaultIsArchived(o) ==
  IF o.isArchived = undefined
  THEN (IF TruthyBool(o.withArchived) THEN undefined ELSE {FALSE})
  ELSE o.isArchived

\* a faulty default: a trash date does not ask for deleted rows
DefaultWithDeleted_IgnoresTrash(o) ==
  IF TruthyBool(o.withDeleted) THEN o.withDeleted ELSE {FALSE}

\* options.withDeleted ||= !!(options.trashedAfter || options.trashedBefore)
DefaultWithDeleted(o) ==
  IF TruthyBool(o.withDeleted) THEN o.withDeleted
  ELSE {TruthyObject(o.trashedAfter) \/ TruthyObject(o.trashedBefore)}

\* the options object as the two assignments leave it
AssignDefaults(o) ==
  LET o1 == [o EXCEPT !.isArchived = DefaultIsArchived(o)]
  IN [o1 EXCEPT !.withDeleted = DefaultWithDeleted(o1)]

JoinExif(qb) == LeftJoin(qb, "exif", Ref("assets", "id"), Ref("exif", "assetId"))

\* .$if(!!options.<name>, (qb) => qb.where('assets.<column>', <op>, options.<name>))
IfDate(qb, o, name, column, op) ==
  If(qb, TruthyObject(o[name]), LAMBDA q : AddWhere(q, Where(Ref("assets", column), op, o[name])))
IfString(qb, o, name, column) ==
  If(qb, TruthyString(o[name]), LAMBDA q : AddWhere(q, Where(Ref("assets", column), "=", o[name])))
IfBool(qb, o, name, column) ==
  If(qb, TruthyBool(o[name]), LAMBDA q : AddWhere(q, Where(Ref("assets", column), "=", o[name])))
IfUuid(qb, o, name, column) ==
  If(qb, TruthyString(o[name]),
     LAMBDA q : AddWhere(q, WhereSql(Ref("assets", column), "=", asUuid(o[name]))))
\* .$if(!!options.<name>, (qb) => qb.leftJoin('exif', ...).where('exif.<name>', '=', options.<name>))
IfExif(qb, o, name) ==
  If(qb, TruthyString(o[name]),
     LAMBDA q : AddWhere(JoinExif(q), Where(Ref("exif", name), "=", o[name])))

\* the existence subquery of isNotInAlbum
InAlbumSubquery ==
  AddWhere(SelectFrom("albums_assets_assets", "albums_assets_assets"),
           Where(Ref("", "assetsId"), "=", {"assets.id"}))

Filters(qb0, o) ==
  LET q1 == IfDate(qb0, o, "createdBefore", "createdAt", "<=")
      q2 == IfDate(q1, o, "createdAfter", "createdAt", ">=")
      q3 == IfDate(q2, o, "updatedBefore", "updatedAt", "<=")
      q4 == IfDate(q3, o, "updatedAfter", "updatedAt", ">=")
      q5 == IfDate(q4, o, "trashedBefore", "deletedAt", "<=")
      q6 == IfDate(q5, o, "trashedAfter", "deletedAt", ">=")
      q7 == IfDate(q6, o, "takenBefore", "fileCreatedAt", "<=")
      q8 == IfDate(q7, o, "takenAfter", "fileCreatedAt", ">=")
      q9 == IfExif(q8, o, "city")
      q10 == IfExif(q9, o, "country")
      q11 == IfExif(q10, o, "lensModel")
      q12 == IfExif(q11, o, "make")
      q13 == IfExif(q12, o, "model")
      q14 == IfExif(q13, o, "state")
      q15 == IfString(q14, o, "checksum", "checksum")
      q16 == IfUuid(q15, o, "deviceAssetId", "deviceAssetId")
      q17 == IfUuid(q16, o, "deviceId", "deviceId")
      q18 == IfUuid(q17, o, "id", "id")
      q19 == IfUuid(q18, o, "libraryId", "libraryId")
      q20 == If(q19, TruthyObject(o.userIds),
                LAMBDA q : AddWhere(q, WhereSql(Ref("assets", "ownerId"), "=",
                                                anyUuid(Val(o.userIds)))))
      q21 == IfString(q20, o, "encodedVideoPath", "encodedVideoPath")
      q22 == IfString(q21, o, "originalPath", "originalPath")
      q23 == IfString(q22, o, "previewPath", "previewPath")
      q24 == IfString(q23, o, "thumbnailPath", "thumbnailPath")
      q25 == If(q24, TruthyString(o.originalFileName),
                LAMBDA q : AddWhere(q, WhereUnaccent(Ref("assets", "originalFileName"),
                                                     o.originalFileName)))
      q26 == IfBool(q25, o, "isFavorite", "isFavorite")
      q27 == IfBool(q26, o, "isOffline", "isOffline")
      q28 == IfBool(q27, o, "isVisible", "isVisible")
      q29 == IfString(q28, o, "type", "type")
      q30 == IfBool(q29, o, "isArchived", "isArchived")
      q31 == If(q30, TruthyBool(o.isEncoded),
                LAMBDA q : AddWhere(q, Where(Ref("assets", "encodedVideoPath"), "is not", NULL)))
      q32 == If(q31, TruthyBool(o.isMotion),
                LAMBDA q : AddWhere(q, Where(Ref("assets", "livePhotoVideoId"), "is not", NULL)))
      q33 == If(q32, TruthyBool(o.isNotInAlbum),
                LAMBDA q : AddWhere(q, NotExists(InAlbumSubquery)))
      q34 == If(q33, TruthyBool(o.withExif), LAMBDA q : withExif(q))
      q35 == If(q34, TruthyBool(o.withFaces) \/ TruthyBool(o.withPeople)
                       \/ TruthyObject(o.personIds),
                LAMBDA q : SelectSubquery(q, withFacesAndPeople, "faces"))
  IN If(q35, ~TruthyBool(o.withDeleted),
        LAMBDA q : AddWhere(q, Where(Ref("assets", "deletedAt"), "is", NULL)))

\* the options object as the call leaves it, and the query it returns
searchAssetBuilder(kysely, o) ==
  LET assigned == AssignDefaults(o)
  IN [options |-> assigned,
      query |-> Filters(SelectAll(hasPeople(WithPlugin(kysely, DeduplicateJoinsPlugin),
                                            assigned.personIds), "assets"),
                        assigned)]

(***************************************************************************)
(* The search: a caller holds an options object, calls searchAssetBuilder  *)
(* and executes the query it returns; it may call again with the same      *)
(* object.  `before` keeps the values the caller put in the object.        *)
(***************************************************************************)
SearchAssets == {"a1", "a2"}
OptionalBool == {undefined, {TRUE}, {FALSE}}
OptionalDate == {undefined} \cup {{t} : t \in Dates}

Unset == [n \in OptionNames |-> undefined]

ExifRow(id) ==
  [assetId |-> {id}, city |-> {"Paris"}, country |-> {"France"}, lensModel |-> {"RF50"},
   make |-> {"Canon"}, model |-> {"EOS R5"}, state |-> NULL]

\* what every store of the search holds: the EXIF row of a1, two faces on a1 (one
\* linked to p1), one face on a2 linked to p2
SearchDb(assets, albums) ==
  [NoDb EXCEPT !.assets = assets,
               !.exif = {ExifRow("a1")},
               !.person = {Person(p) : p \in PersonIds},
               !.asset_faces = {[id |-> {"f1"}, assetId |-> {"a1"}, personId |-> {"p1"}],
                                [id |-> {"f2"}, assetId |-> {"a1"}, personId |-> NULL],
                                [id |-> {"f3"}, assetId |-> {"a2"}, personId |-> {"p2"}]},
               !.albums_assets_assets = albums]

\* stores that differ in the archived flag and the deletion time of each asset
ArchiveDbs ==
  {SearchDb({[Asset(a) EXCEPT !.isArchived = m[a][1], !.deletedAt = m[a][2]] : a \in SearchAssets},
            {[albumsId |-> {"b1"}, assetsId |-> {"a1"}]}) :
     m \in [SearchAssets -> {{TRUE}, {FALSE}} \X OptionalDate]}

\* stores that differ in the album memberships
AlbumDbs ==
  {SearchDb({[Asset("a1") EXCEPT !.isFavorite = {TRUE}, !.encodedVideoPath = {"encoded/1.mp4"},
                                 !.livePhotoVideoId = {"a2"}, !.isOffline = {TRUE}],
             [Asset("a2") EXCEPT !.createdAt = {MaxDate}, !.updatedAt = {MaxDate},
                                 !.fileCreatedAt = {MaxDate}, !.checksum = {"sha2"},
                                 !.originalPath = {"upload/2.jpg"}, !.type = {"VIDEO"},
                                 !.libraryId = NULL, !.isVisible = {FALSE},
                                 !.originalFileName = {"img_2.jpg"}]},
            {[albumsId |-> {"b1"}, assetsId |-> {a}] : a \in members}) :
     members \in SUBSET SearchAssets}

\* options on the archived and trashed state
ArchiveOptions ==
  {[Unset EXCEPT !.isArchived = a, !.withArchived = w, !.withDeleted = d,
                 !.trashedAfter = ta, !.trashedBefore = tb] :
     a \in OptionalBool, w \in OptionalBool, d \in OptionalBool,
     ta \in OptionalDate, tb \in OptionalDate}

OptionalOf(value) == {undefined, {value}}

\* options that need the EXIF relation
ExifOptions ==
  {[Unset EXCEPT !.city = c, !.country = co, !.lensModel = l, !.make = ma, !.model = mo,
                 !.state = st, !.withExif = we] :
     c \in {undefined, {""}, {"Paris"}}, co \in OptionalOf("France"), l \in OptionalOf("RF50"),
     ma \in OptionalOf("Canon"), mo \in OptionalOf("EOS R5"), st \in OptionalOf("IDF"),
     we \in OptionalBool}

PeopleOptions ==
  {[Unset EXCEPT !.personIds = ids, !.withFaces = f, !.withPeople = w] :
     ids \in {undefined, {<<>>}, {<<"p1">>}, {<<"p1", "p2">>}},
     f \in OptionalOf(TRUE), w \in OptionalOf(TRUE)}

\* one more filter each
OtherOptions ==
  {[Unset EXCEPT ![n] = {t}] :
     n \in {"createdBefore", "createdAfter", "updatedBefore", "updatedAfter", "takenBefore",
            "takenAfter"}, t \in Dates}
  \cup {[Unset EXCEPT ![n] = {b}] :
          n \in {"isFavorite", "isOffline", "isVisible", "isEncoded", "isMotion", "isNotInAlbum"},
          b \in BOOLEAN}
  \cup {[Unset EXCEPT ![n] = {"l1"}] : n \in {"deviceAssetId", "deviceId", "libraryId"}}
  \cup {[Unset EXCEPT !.id = {a}] : a \in SearchAssets}
  \cup {[Unset EXCEPT !.userIds = {u}] : u \in {<<>>, <<"u1">>}}
  \cup {[Unset EXCEPT !.checksum = {"sha1"}], [Unset EXCEPT !.type = {"IMAGE"}],
        [Unset EXCEPT !.encodedVideoPath = {"encoded/1.mp4"}],
        [Unset EXCEPT !.originalPath = {"upload/2.jpg"}],
        [Unset EXCEPT !.previewPath = {"thumbs/1.jpeg"}],
        [Unset EXCEPT !.thumbnailPath = {"thumbs/1.webp"}],
        [Unset EXCEPT !.originalFileName = {"img_1.jpg"}],
        [Unset EXCEPT !.originalFileName = {""}]}

Init ==
  /\ \/ options \in ArchiveOptions /\ db \in ArchiveDbs
     \/ options \in ExifOptions \cup PeopleOptions \cup OtherOptions /\ db \in AlbumDbs
  /\ before = options
  /\ args = <<>>
  /\ query = NoQuery
  /\ result = undefined
  /\ pc = "start"

CallSearchAssetBuilder ==
  /\ pc \in {"start", "called"}
  /\ LET built == searchAssetBuilder(Kysely, options)
     IN /\ options' = built.options
        /\ query' = built.query
        /\ result' = Execute(db, built.query)
  /\ pc' = "called"
  /\ UNCHANGED <<db, before, args>>

Next == CallSearchAssetBuilder

Spec == Init /\ [][Next]_vars

(***************************************************************************)
(* Properties of the search.                                               *)
(***************************************************************************)
\* C1: when isArchived is unset and withArchived is not requested, no asset
\* with isArchived = true is in the result of the query.
C1_ArchivedExcludedByDefault ==
  (pc = "called" /\ before.isArchived = undefined /\ ~TruthyBool(before.withArchived)) =>
    \A row \in result.rows : row.isArchived # {TRUE}

HasDeletedAtIsNull(q) ==
  \E i \in 1..Len(q.wheres) :
    /\ q.wheres[i].kind = "cmp"
    /\ q.wheres[i].lhs = Ref("assets", "deletedAt")
    /\ q.wheres[i].op = "is"

InTrashRange(o, deletedAt) ==
  /\ deletedAt # NULL
  /\ o.trashedAfter # undefined => Val(deletedAt) >= Val(o.trashedAfter)
  /\ o.trashedBefore # undefined => Val(deletedAt) <= Val(o.trashedBefore)

\* the rows the same search returns with the trash dates dropped and deleted
\* rows asked for
WithDeletedRows(d, o) ==
  Execute(d, searchAssetBuilder(Kysely, [o EXCEPT !.trashedAfter = undefined,
                                                  !.trashedBefore = undefined,
                                                  !.withDeleted = {TRUE}]).query).rows

\* C2: if neither trashedAfter nor trashedBefore is set and withDeleted is not
\* requested, no asset with a non-null deletedAt is in the result; if a trash
\* date is set, 'deletedAt is null' is not applied, and the result is exactly
\* the rows of the search with deleted rows included whose deletedAt lies in
\* the trash-date range, withDeleted requested or not.
C2_SoftDeleteDefault ==
  pc = "called" =>
    /\ (/\ before.trashedAfter = undefined
        /\ before.trashedBefore = undefined
        /\ ~TruthyBool(before.withDeleted)) =>
         /\ HasDeletedAtIsNull(query)
         /\ \A row \in result.rows : row.deletedAt = NULL
    /\ (before.trashedAfter # undefined \/ before.trashedBefore # undefined) =>
         /\ ~HasDeletedAtIsNull(query)
         /\ result.rows = {row \in WithDeletedRows(db, before) :
                             InTrashRange(before, row.deletedAt)}

\* a soft-deleted asset was returned for a trash date, withDeleted not requested
C2_Witness ==
  /\ pc = "called"
  /\ before.withDeleted = undefined
  /\ before.trashedAfter # undefined
  /\ \E row \in result.rows : row.deletedAt # NULL

\* C8: after a call every field of the options object has the value it had
\* before the call.
C8_OptionsUnchanged == pc = "called" => options = before

ExifDependent == {"city", "country", "lensModel", "make", "model", "state"}

ExifRequested(o) == TruthyBool(o.withExif) \/ \E n \in ExifDependent : TruthyString(o[n])

ExifJoins(q) == {i \in 1..Len(q.joins) : q.joins[i].table = "exif"}

\* C9: the generated query holds exactly one join to the exif relation when an
\* EXIF-dependent option (city, country, lensModel, make, model, state,
\* withExif) is set, and none when none is.
C9_OneExifJoin ==
  pc = "called" =>
    Cardinality(ExifJoins(Compile(query))) = (IF ExifRequested(before) THEN 1 ELSE 0)

\* two EXIF filters and the EXIF projection were requested together
C9_Witness ==
  /\ pc = "called"
  /\ TruthyString(before.city) /\ TruthyString(before.country) /\ TruthyBool(before.withExif)
  /\ Cardinality(ExifJoins(query)) = 3
  /\ Cardinality(ExifJoins(Compile(query))) = 1

InAlbum(d, id) == \E m \in d.albums_assets_assets : m.assetsId = id

\* C10: when isNotInAlbum is set, the existence subquery compares assetsId
\* with the outer row's assets.id column, and the query returns only assets
\* with no row in albums_assets_assets.
C10_NotInAlbumIsCorrelated ==
  (pc = "called" /\ TruthyBool(before.isNotInAlbum)) =>
    /\ \E i \in 1..Len(query.wheres) :
         /\ query.wheres[i].kind = "not exists"
         /\ \E k \in 1..Len(query.wheres[i].sub.wheres) :
              LET w == query.wheres[i].sub.wheres[k]
              IN /\ w.lhs[2] = "assetsId"
                 /\ w.rhs.kind = "ref"
                 /\ w.rhs.v = Ref("assets", "id")
    /\ ~result.error
    /\ \A row \in result.rows : ~InAlbum(db, row.id)

====
